---- MODULE Spec2Model ----
(***************************************************************************)
(* Model of src/src/player_event_handler.rs (librespot): the EventHandler  *)
(* listener thread that drains the player event channel and writes one     *)
(* `raise_event <name> <json>` line per translated event to stderr, the    *)
(* Drop implementation that joins that thread, and handle_sink_events.     *)
(***************************************************************************)
EXTENDS Integers, Sequences, FiniteSets, TLC

\* Number of events the producer pushes before it closes the channel.
MaxEvents == 2
\* Number of handle_sink_events calls made by the audio output layer.
MaxSinkCalls == 1

VARIABLES
    script,        \* the events the producer is going to push, in order
    sent,          \* how many of them it has pushed
    chan,          \* PlayerEventChannel: events in flight
    closed,        \* every sender of the channel has been dropped
    pc,            \* position of the listener thread
    event,         \* listener local `event` (Option)
    event_name,    \* listener local `event_name`
    json_obj,      \* listener local `json_obj` (Option<Value>)
    out,           \* lines written to stderr by eprintln!
    warnings,      \* messages logged by warn!
    thread_handle, \* EventHandler.thread_handle (Option<JoinHandle>)
    drop,          \* position of the context that releases the EventHandler
    drop_log,      \* levels logged by Drop (debug!, error!)
    sink_calls,    \* arguments of the handle_sink_events calls made so far
    sink_ctx,      \* state of the context that calls handle_sink_events
    stderr_ok,     \* whether a write to stderr succeeds
    handled        \* history: one record per completed loop iteration

vars == <<script, sent, chan, closed, pc, event, event_name, json_obj, out,
          warnings, thread_handle, drop, drop_log, sink_calls, sink_ctx,
          stderr_ok, handled>>

None == <<>>
Some(x) == <<x>>

-----------------------------------------------------------------------------
(* PlayerEvent values.  Fields are kept symbolic: a payload maps each JSON  *)
(* key to the name of the event field stored under it.                     *)

Ev(v, id, uf) == [variant |-> v, track_id |-> id, unique_fields |-> uf]

\* The closed set of PlayerEvent values the producer draws from: every
\* variant, with an encodable and an unencodable track id where one is
\* carried, and both UniqueFields variants for TrackChanged.
Catalogue ==
    << Ev("PlayRequestIdChanged", "-", "-"),
       Ev("TrackChanged", "valid", "Track"),
       Ev("TrackChanged", "invalid", "Track"),
       Ev("TrackChanged", "valid", "Episode"),
       Ev("TrackChanged", "invalid", "Episode"),
       Ev("Stopped", "valid", "-"),
       Ev("Stopped", "invalid", "-"),
       Ev("Playing", "valid", "-"),
       Ev("Playing", "invalid", "-"),
       Ev("Paused", "valid", "-"),
       Ev("Paused", "invalid", "-"),
       Ev("Loading", "valid", "-"),
       Ev("Loading", "invalid", "-"),
       Ev("Preloading", "valid", "-"),
       Ev("Preloading", "invalid", "-"),
       Ev("TimeToPreloadNextTrack", "valid", "-"),
       Ev("TimeToPreloadNextTrack", "invalid", "-"),
       Ev("EndOfTrack", "valid", "-"),
       Ev("EndOfTrack", "invalid", "-"),
       Ev("Unavailable", "valid", "-"),
       Ev("Unavailable", "invalid", "-"),
       Ev("VolumeChanged", "-", "-"),
       Ev("Seeked", "valid", "-"),
       Ev("Seeked", "invalid", "-"),
       Ev("PositionCorrection", "valid", "-"),
       Ev("PositionCorrection", "invalid", "-"),
       Ev("SessionConnected", "-", "-"),
       Ev("SessionDisconnected", "-", "-"),
       Ev("SessionClientChanged", "-", "-"),
       Ev("ShuffleChanged", "-", "-"),
       Ev("RepeatChanged", "-", "-"),
       Ev("AutoPlayChanged", "-", "-"),
       Ev("FilterExplicitContentChanged", "-", "-") >>

\* The producer's plan: MaxEvents consecutive catalogue entries from `first`.
Script(first) ==
    [i \in 1..MaxEvents |-> Catalogue[((first + i - 2) % Len(Catalogue)) + 1]]

SinkStatus == {"Running", "TemporarilyClosed", "Closed"}

\* SpotifyId::to_base62: a Result.
ToBase62(track_id) ==
    IF track_id = "valid" THEN [ok |-> TRUE, val |-> "base62(track_id)"]
                          ELSE [ok |-> FALSE, val |-> "e"]

\* What one arm of the match leaves in the locals, and what it logs.
Arm(name, json, warn) == [name |-> name, json |-> json, warn |-> warn]

-----------------------------------------------------------------------------
(* The arms of `match event.clone()`.  Each starts from the locals set on   *)
(* entry (event_name = "unknown", json_obj = None) and yields their values *)
(* after the arm, together with the warning it logs, if any.               *)

ArmPlayRequestIdChanged(e) ==
    Arm("playRequestIdChanged",
        Some([playRequestId |-> "play_request_id"]), None)

UniqueFieldsJson(uf) ==
    IF uf = "Track"
    THEN [itemType |-> "Track", albumArtists |-> "album_artists",
          album |-> "album", popularity |-> "popularity",
          number |-> "number", discNumber |-> "disc_number",
          artists |-> "artists.name[]"]
    ELSE [itemType |-> "Episode", description |-> "description",
          publishTime |-> "publish_time.unix_timestamp()",
          showName |-> "show_name"]

\* event_name is assigned before the track id is encoded.
ArmTrackChanged(e) ==
    LET id == ToBase62(e.track_id) IN
    IF ~id.ok
    THEN Arm("trackChanged", None,
             Some("PlayerEvent::TrackChanged: Invalid track id"))
    ELSE Arm("trackChanged",
             Some([trackId |-> id.val, uri |-> "uri", name |-> "name",
                   covers |-> "covers.url[]", language |-> "language",
                   durationMs |-> "duration_ms",
                   isExplicit |-> "is_explicit",
                   extraFields |-> UniqueFieldsJson(e.unique_fields)]),
             None)

\* Faulty variant: the encoding error is logged but the payload is built anyway.
ArmStopped_NoSuppress(e) ==
    LET id == ToBase62(e.track_id) IN
    Arm("stopped", Some([trackId |-> id.val]),
        IF id.ok THEN None
                 ELSE Some("PlayerEvent::Stopped: Invalid track id"))

ArmStopped(e) ==
    LET id == ToBase62(e.track_id) IN
    IF ~id.ok
    THEN Arm("unknown", None, Some("PlayerEvent::Stopped: Invalid track id"))
    ELSE Arm("stopped", Some([trackId |-> id.val]), None)

ArmPlaying(e) ==
    LET id == ToBase62(e.track_id) IN
    IF ~id.ok
    THEN Arm("unknown", None, Some("PlayerEvent::Playing: Invalid track id"))
    ELSE Arm("playing",
             Some([trackId |-> id.val, positionMs |-> "position_ms"]), None)

\* Faulty variant: the arm is a copy of the Playing arm with the name left unchanged.
ArmPaused_CopiedName(e) ==
    LET id == ToBase62(e.track_id) IN
    IF ~id.ok
    THEN Arm("unknown", None, Some("PlayerEvent::Paused: Invalid track id"))
    ELSE Arm("playing",
             Some([trackId |-> id.val, positionMs |-> "position_ms"]), None)

ArmPaused(e) ==
    LET id == ToBase62(e.track_id) IN
    IF ~id.ok
    THEN Arm("unknown", None, Some("PlayerEvent::Paused: Invalid track id"))
    ELSE Arm("paused",
             Some([trackId |-> id.val, positionMs |-> "position_ms"]), None)

ArmLoading(e) ==
    LET id == ToBase62(e.track_id) IN
    IF ~id.ok
    THEN Arm("unknown", None, Some("PlayerEvent::Loading: Invalid track id"))
    ELSE Arm("loading", Some([trackId |-> id.val]), None)

ArmPreloading(e) ==
    LET id == ToBase62(e.track_id) IN
    IF ~id.ok
    THEN Arm("unknown", None,
             Some("PlayerEvent::Preloading: Invalid track id"))
    ELSE Arm("preloading", Some([trackId |-> id.val]), None)

ArmTimeToPreloadNextTrack(e) ==
    LET id == ToBase62(e.track_id) IN
    IF ~id.ok
    THEN Arm("unknown", None,
             Some("PlayerEvent::TimeToPreloadNextTrack: Invalid track id"))
    ELSE Arm("timeToPreloadNextTrack", Some([trackId |-> id.val]), None)

ArmEndOfTrack(e) ==
    LET id == ToBase62(e.track_id) IN
    IF ~id.ok
    THEN Arm("unknown", None,
             Some("PlayerEvent::EndOfTrack: Invalid track id"))
    ELSE Arm("endOfTrack", Some([trackId |-> id.val]), None)

ArmUnavailable(e) ==
    LET id == ToBase62(e.track_id) IN
    IF ~id.ok
    THEN Arm("unknown", None,
             Some("PlayerEvent::Unavailable: Invalid track id"))
    ELSE Arm("unavailable", Some([trackId |-> id.val]), None)

ArmVolumeChanged(e) ==
    Arm("volumeChanged", Some([volume |-> "volume"]), None)

ArmSeeked(e) ==
    LET id == ToBase62(e.track_id) IN
    IF ~id.ok
    THEN Arm("unknown", None, Some("PlayerEvent::Seeked: Invalid track id"))
    ELSE Arm("seeked",
             Some([trackId |-> id.val, positionMs |-> "position_ms"]), None)

ArmPositionCorrection(e) ==
    LET id == ToBase62(e.track_id) IN
    IF ~id.ok
    THEN Arm("unknown", None,
             Some("PlayerEvent::PositionCorrection: Invalid track id"))
    ELSE Arm("positionCorrection",
             Some([trackId |-> id.val, positionMs |-> "position_ms"]), None)

ArmSessionConnected(e) ==
    Arm("sessionConnected",
        Some([connectionId |-> "connection_id", userName |-> "user_name"]),
        None)

ArmSessionDisconnected(e) ==
    Arm("sessionDisconnected",
        Some([connectionId |-> "connection_id", userName |-> "user_name"]),
        None)

\* The last key is spelled as the source spells it.
ArmSessionClientChanged(e) ==
    Arm("sessionClientChanged",
        Some([clientId |-> "client_id", clientName |-> "client_name",
              clientBrandName |-> "client_brand_name",
              cleintModelName |-> "client_model_name"]),
        None)

ArmShuffleChanged(e) ==
    Arm("shuffleChanged", Some([shuffle |-> "shuffle"]), None)

ArmRepeatChanged(e) ==
    Arm("repeatChanged", Some([repeat |-> "repeat"]), None)

ArmAutoPlayChanged(e) ==
    Arm("autoPlayChanged", Some([autoPlay |-> "auto_play"]), None)

ArmFilterExplicitContentChanged(e) ==
    Arm("filterExplicitContentChanged", Some([filter |-> "filter"]), None)

\* The exhaustive match over the variant tag.
MatchEvent(e) ==
    CASE e.variant = "PlayRequestIdChanged" -> ArmPlayRequestIdChanged(e)
      [] e.variant = "TrackChanged" -> ArmTrackChanged(e)
      [] e.variant = "Stopped" -> ArmStopped(e)
      [] e.variant = "Playing" -> ArmPlaying(e)
      [] e.variant = "Paused" -> ArmPaused(e)
      [] e.variant = "Loading" -> ArmLoading(e)
      [] e.variant = "Preloading" -> ArmPreloading(e)
      [] e.variant = "TimeToPreloadNextTrack" -> ArmTimeToPreloadNextTrack(e)
      [] e.variant = "EndOfTrack" -> ArmEndOfTrack(e)
      [] e.variant = "Unavailable" -> ArmUnavailable(e)
      [] e.variant = "VolumeChanged" -> ArmVolumeChanged(e)
      [] e.variant = "Seeked" -> ArmSeeked(e)
      [] e.variant = "PositionCorrection" -> ArmPositionCorrection(e)
      [] e.variant = "SessionConnected" -> ArmSessionConnected(e)
      [] e.variant = "SessionDisconnected" -> ArmSessionDisconnected(e)
      [] e.variant = "SessionClientChanged" -> ArmSessionClientChanged(e)
      [] e.variant = "ShuffleChanged" -> ArmShuffleChanged(e)
      [] e.variant = "RepeatChanged" -> ArmRepeatChanged(e)
      [] e.variant = "AutoPlayChanged" -> ArmAutoPlayChanged(e)
      [] e.variant = "FilterExplicitContentChanged" ->
             ArmFilterExplicitContentChanged(e)

\* serde_json::to_string returns a Result; both outcomes are considered.
SerResults == {"Ok", "Err"}

\* The text eprintln! writes for a player event.
PlayerLine(name, s) == [tag |-> "raise_event", name |-> name, json |-> s]

\* Faulty variant: TemporarilyClosed is spelled in camel case like the event names.
SinkStatusName_Camel(sink_status) ==
    CASE sink_status = "Running" -> "running"
      [] sink_status = "TemporarilyClosed" -> "temporarilyClosed"
      [] sink_status = "Closed" -> "closed"

SinkStatusName(sink_status) ==
    CASE sink_status = "Running" -> "running"
      [] sink_status = "TemporarilyClosed" -> "temporarily_closed"
      [] sink_status = "Closed" -> "closed"

\* The text eprintln! writes for a sink status.
SinkLine(sink_status) ==
    [tag |-> "raise_event", name |-> "sink",
     json |-> [sinkStatus |-> SinkStatusName(sink_status)]]

-----------------------------------------------------------------------------
(* State after EventHandler::new: the thread is spawned and about to call  *)
(* blocking_recv, the handle is stored, nothing has been written.          *)

Init ==
    /\ script \in {Script(first) : first \in 1..Len(Catalogue)}
    /\ sent = 0
    /\ chan = <<>>
    /\ closed = FALSE
    /\ pc = "recv"
    /\ event = None
    /\ event_name = "unknown"
    /\ json_obj = None
    /\ out = <<>>
    /\ warnings = <<>>
    /\ thread_handle = "Some"
    /\ drop = "owned"
    /\ drop_log = <<>>
    /\ sink_calls = <<>>
    /\ sink_ctx = "running"
    /\ stderr_ok = TRUE
    /\ handled = <<>>

\* Faulty variant: the wake-up of a blocked receiver is lost.
Woken_Lost(p) == p

\* A sender or its drop wakes a receiver blocked in blocking_recv.
Woken(p) == IF p = "parked" THEN "recv" ELSE p

(* The playback engine pushes its next event into the unbounded channel. *)
Send ==
    /\ ~closed
    /\ sent < MaxEvents
    /\ sent' = sent + 1
    /\ chan' = Append(chan, script[sent + 1])
    /\ pc' = Woken(pc)
    /\ UNCHANGED <<script, closed, event, event_name, json_obj, out, warnings,
                   thread_handle, drop, drop_log, sink_calls, sink_ctx,
                   stderr_ok, handled>>

(* The playback engine drops the sending end: the channel is closed. *)
Close ==
    /\ ~closed
    /\ closed' = TRUE
    /\ pc' = Woken(pc)
    /\ UNCHANGED <<script, sent, chan, event, event_name, json_obj, out,
                   warnings, thread_handle, drop, drop_log, sink_calls,
                   sink_ctx, stderr_ok, handled>>

\* Faulty variant: None is never returned; on an empty channel the thread blocks.
Recv_IgnoresClose ==
    /\ pc = "recv"
    /\ IF chan # <<>>
       THEN /\ event' = Some(Head(chan))
            /\ chan' = Tail(chan)
            /\ event_name' = "unknown"
            /\ json_obj' = None
            /\ pc' = "match"
       ELSE /\ pc' = "parked"
            /\ UNCHANGED <<event, chan, event_name, json_obj>>
    /\ UNCHANGED <<script, sent, closed, out, warnings, thread_handle, drop,
                   drop_log, sink_calls, sink_ctx, stderr_ok, handled>>

(* player_events.blocking_recv(): Some(event) while events are buffered,   *)
(* None once the channel is closed and drained (break), otherwise the      *)
(* thread blocks.  On Some the locals of the iteration are initialised.    *)
Recv ==
    /\ pc = "recv"
    /\ IF chan # <<>>
       THEN /\ event' = Some(Head(chan))
            /\ chan' = Tail(chan)
            /\ event_name' = "unknown"
            /\ json_obj' = None
            /\ pc' = "match"
       ELSE /\ pc' = IF closed THEN "exited" ELSE "parked"
            /\ UNCHANGED <<event, chan, event_name, json_obj>>
    /\ UNCHANGED <<script, sent, closed, out, warnings, thread_handle, drop,
                   drop_log, sink_calls, sink_ctx, stderr_ok, handled>>

(* match event.clone() { ... }: the arm sets event_name and json_obj and   *)
(* logs a warning when the track id does not encode.                       *)
Match ==
    /\ pc = "match"
    /\ LET arm == MatchEvent(event[1]) IN
        /\ event_name' = arm.name
        /\ json_obj' = arm.json
        /\ warnings' = warnings \o arm.warn
    /\ pc' = "emit"
    /\ UNCHANGED <<script, sent, chan, closed, event, out, thread_handle,
                   drop, drop_log, sink_calls, sink_ctx, stderr_ok, handled>>

\* The end of one loop iteration, back at blocking_recv.
EndIteration(ser, wrote) ==
    /\ handled' = Append(handled,
                         [event |-> event[1], ser |-> ser, wrote |-> wrote])
    /\ event' = None
    /\ pc' = "recv"

\* Faulty variant: without a payload the bare name is written.
EmitNone_BareName ==
    /\ out' = Append(out, PlayerLine(event_name, [k \in {} |-> ""]))
    /\ EndIteration("NotTried", None)
    /\ UNCHANGED warnings

(* if let Some(json_obj) = json_obj is false: nothing is written. *)
EmitNone ==
    /\ EndIteration("NotTried", None)
    /\ UNCHANGED <<out, warnings>>

\* Faulty variant: `break` in place of `continue`.
EmitErr_Break ==
    /\ warnings' = Append(warnings, "Failed to serialize PlayerEvent")
    /\ handled' = Append(handled,
                         [event |-> event[1], ser |-> "Err", wrote |-> None])
    /\ event' = None
    /\ pc' = "exited"
    /\ UNCHANGED out

(* Err(e) => { warn!(..); continue; } *)
EmitErr ==
    /\ warnings' = Append(warnings, "Failed to serialize PlayerEvent")
    /\ EndIteration("Err", None)
    /\ UNCHANGED out

(* Ok(s) => eprintln!("raise_event {} {}", event_name, s): eprintln!       *)
(* panics when stderr cannot be written.                                   *)
EmitOk ==
    IF stderr_ok
    THEN /\ out' = Append(out, PlayerLine(event_name, json_obj[1]))
         /\ EndIteration("Ok", Some(PlayerLine(event_name, json_obj[1])))
         /\ UNCHANGED warnings
    ELSE /\ pc' = "panicked"
         /\ UNCHANGED <<out, warnings, event, handled>>

(* The emit step that ends every iteration of the loop. *)
Emit ==
    /\ pc = "emit"
    /\ IF json_obj = None
       THEN EmitNone
       ELSE \E ser \in SerResults : IF ser = "Ok" THEN EmitOk ELSE EmitErr
    /\ UNCHANGED <<script, sent, chan, closed, event_name, json_obj,
                   thread_handle, drop, drop_log, sink_calls, sink_ctx,
                   stderr_ok>>

(* Drop::drop up to the join: debug!, then thread_handle.take(). *)
DropBegin ==
    /\ drop = "owned"
    /\ drop_log' = Append(drop_log, "debug")
    /\ thread_handle' = "None"
    /\ drop' = IF thread_handle = "Some" THEN "joining" ELSE "returned"
    /\ UNCHANGED <<script, sent, chan, closed, pc, event, event_name,
                   json_obj, out, warnings, sink_calls, sink_ctx, stderr_ok,
                   handled>>

\* Faulty variant: the handle is dropped (thread detached) instead of joined.
DropJoin_Detach ==
    /\ drop = "joining"
    /\ drop' = "returned"
    /\ UNCHANGED <<script, sent, chan, closed, pc, event, event_name,
                   json_obj, out, warnings, thread_handle, drop_log,
                   sink_calls, sink_ctx, stderr_ok, handled>>

\* Faulty variant: handle.join().unwrap() - the thread's panic unwinds the caller.
DropJoin_Unwrap ==
    /\ drop = "joining"
    /\ pc \in {"exited", "panicked"}
    /\ drop' = IF pc = "panicked" THEN "unwound" ELSE "returned"
    /\ UNCHANGED <<script, sent, chan, closed, pc, event, event_name,
                   json_obj, out, warnings, thread_handle, drop_log,
                   sink_calls, sink_ctx, stderr_ok, handled>>

(* handle.join() returns once the thread has finished: Ok after a normal   *)
(* exit, Err after a panic, which is logged with error!; drop then returns.*)
DropJoin ==
    /\ drop = "joining"
    /\ pc \in {"exited", "panicked"}
    /\ drop_log' = IF pc = "panicked" THEN Append(drop_log, "error")
                                      ELSE drop_log
    /\ drop' = "returned"
    /\ UNCHANGED <<script, sent, chan, closed, pc, event, event_name,
                   json_obj, out, warnings, thread_handle, sink_calls,
                   sink_ctx, stderr_ok, handled>>

(* handle_sink_events(sink_status): one eprintln! on the caller's context. *)
HandleSinkEvents(sink_status) ==
    /\ sink_ctx = "running"
    /\ Len(sink_calls) < MaxSinkCalls
    /\ sink_calls' = Append(sink_calls, sink_status)
    /\ IF stderr_ok
       THEN /\ out' = Append(out, SinkLine(sink_status))
            /\ UNCHANGED sink_ctx
       ELSE /\ sink_ctx' = "panicked"
            /\ UNCHANGED out
    /\ UNCHANGED <<script, sent, chan, closed, pc, event, event_name,
                   json_obj, warnings, thread_handle, drop, drop_log,
                   stderr_ok, handled>>

(* The environment makes stderr unwritable (closed pipe, full device). *)
StderrFails ==
    /\ stderr_ok
    /\ stderr_ok' = FALSE
    /\ UNCHANGED <<script, sent, chan, closed, pc, event, event_name,
                   json_obj, out, warnings, thread_handle, drop, drop_log,
                   sink_calls, sink_ctx, handled>>

Next ==
    \/ Send
    \/ Close
    \/ Recv
    \/ Match
    \/ Emit
    \/ DropBegin
    \/ DropJoin
    \/ \E sink_status \in SinkStatus : HandleSinkEvents(sink_status)

NextFault ==
    \/ Next
    \/ StderrFails

\* stderr stays writable: no eprintln! panics.
Spec == Init /\ [][Next]_vars

\* The listener thread and a caller blocked in join are scheduled.
Fairness ==
    /\ WF_vars(Recv)
    /\ WF_vars(Match)
    /\ WF_vars(Emit)
    /\ WF_vars(DropJoin)

LiveSpec == Spec /\ Fairness

\* stderr may become unwritable at any time.
FaultSpec == Init /\ [][NextFault]_vars

FaultLiveSpec == FaultSpec /\ Fairness

-----------------------------------------------------------------------------
(* Properties.                                                             *)

Variants == {Catalogue[i].variant : i \in 1..Len(Catalogue)}

PlayerLines(lines) == SelectSeq(lines, LAMBDA l : l.name # "sink")
SinkLines(lines) == SelectSeq(lines, LAMBDA l : l.name = "sink")

\* The listener thread takes a step out of position p.
ListenerLeaves(p) == pc = p /\ pc' # p

\* The notification names of the specification's table (section 4.2).
DocumentedName(v) ==
    CASE v = "PlayRequestIdChanged" -> "playRequestId"
      [] v = "TrackChanged" -> "trackChanged"
      [] v = "Stopped" -> "stopped"
      [] v = "Playing" -> "playing"
      [] v = "Paused" -> "paused"
      [] v = "Loading" -> "loading"
      [] v = "Preloading" -> "preloading"
      [] v = "TimeToPreloadNextTrack" -> "timeToPreloadNextTrack"
      [] v = "EndOfTrack" -> "endOfTrack"
      [] v = "Unavailable" -> "unavailable"
      [] v = "VolumeChanged" -> "volumeChanged"
      [] v = "Seeked" -> "seeked"
      [] v = "PositionCorrection" -> "positionCorrection"
      [] v = "SessionConnected" -> "sessionConnected"
      [] v = "SessionDisconnected" -> "sessionDisconnected"
      [] v = "SessionClientChanged" -> "sessionClientChanged"
      [] v = "ShuffleChanged" -> "shuffleChanged"
      [] v = "RepeatChanged" -> "repeatChanged"
      [] v = "AutoPlayChanged" -> "autoPlayChanged"
      [] v = "FilterExplicitContentChanged" -> "filterExplicitContentChanged"

\* The same table with the name the listener writes for PlayRequestIdChanged.
WrittenName(v) ==
    IF v = "PlayRequestIdChanged" THEN "playRequestIdChanged"
                                  ELSE DocumentedName(v)

\* C1 as stated: every line written for an event carries the name the
\* specification's table gives for the event's variant.
C1_DocumentedNames ==
    \A i \in 1..Len(handled) :
        handled[i].wrote # None =>
            handled[i].wrote[1].name = DocumentedName(handled[i].event.variant)

\* C1 as amended: every line written for an event carries the table's name
\* for the event's variant, except that PlayRequestIdChanged is written as
\* "playRequestIdChanged"; no two variants share a name.
C1_WrittenNames ==
    /\ \A i \in 1..Len(handled) :
        handled[i].wrote # None =>
            handled[i].wrote[1].name = WrittenName(handled[i].event.variant)
    /\ \A v, w \in Variants : v # w => WrittenName(v) # WrittenName(w)

C1_Witness ==
    \E i \in 1..Len(handled) :
        /\ handled[i].event.variant = "PlayRequestIdChanged"
        /\ handled[i].wrote # None
        /\ handled[i].wrote[1] = out[Len(out)]

\* The payload field sets of the specification's table (section 4.2).
DocumentedFields(v) ==
    CASE v = "PlayRequestIdChanged" -> {"playRequestId"}
      [] v = "TrackChanged" ->
            {"trackId", "uri", "name", "covers", "language", "durationMs",
             "isExplicit", "extraFields"}
      [] v \in {"Stopped", "Loading", "Preloading", "TimeToPreloadNextTrack",
                "EndOfTrack", "Unavailable"} -> {"trackId"}
      [] v \in {"Playing", "Paused", "Seeked", "PositionCorrection"} ->
            {"trackId", "positionMs"}
      [] v = "VolumeChanged" -> {"volume"}
      [] v \in {"SessionConnected", "SessionDisconnected"} ->
            {"connectionId", "userName"}
      [] v = "SessionClientChanged" ->
            {"clientId", "clientName", "clientBrandName", "clientModelName"}
      [] v = "ShuffleChanged" -> {"shuffle"}
      [] v = "RepeatChanged" -> {"repeat"}
      [] v = "AutoPlayChanged" -> {"autoPlay"}
      [] v = "FilterExplicitContentChanged" -> {"filter"}

\* C2: the top-level keys of every payload written for an event are exactly
\* the field set the specification's table lists for the event's variant.
C2_DocumentedFields ==
    \A i \in 1..Len(handled) :
        handled[i].wrote # None =>
            DOMAIN handled[i].wrote[1].json =
                DocumentedFields(handled[i].event.variant)

\* The warning each track-id arm logs when the id does not encode.
InvalidIdWarning(v) ==
    CASE v = "TrackChanged" -> "PlayerEvent::TrackChanged: Invalid track id"
      [] v = "Stopped" -> "PlayerEvent::Stopped: Invalid track id"
      [] v = "Playing" -> "PlayerEvent::Playing: Invalid track id"
      [] v = "Paused" -> "PlayerEvent::Paused: Invalid track id"
      [] v = "Loading" -> "PlayerEvent::Loading: Invalid track id"
      [] v = "Preloading" -> "PlayerEvent::Preloading: Invalid track id"
      [] v = "TimeToPreloadNextTrack" ->
            "PlayerEvent::TimeToPreloadNextTrack: Invalid track id"
      [] v = "EndOfTrack" -> "PlayerEvent::EndOfTrack: Invalid track id"
      [] v = "Unavailable" -> "PlayerEvent::Unavailable: Invalid track id"
      [] v = "Seeked" -> "PlayerEvent::Seeked: Invalid track id"
      [] v = "PositionCorrection" ->
            "PlayerEvent::PositionCorrection: Invalid track id"

\* C3: for an event whose track id does not encode, the match logs exactly
\* one warning (naming the variant) and produces no payload, the emit step
\* that follows writes nothing and logs nothing, no line is ever recorded
\* for the event, and the thread is back at its receive.
C3_UnencodableIdSuppressed ==
    /\ [](\A i \in 1..Len(handled) :
            handled[i].event.track_id = "invalid" =>
                handled[i].wrote = None /\ handled[i].ser = "NotTried")
    /\ [][(ListenerLeaves("match") /\ event[1].track_id = "invalid") =>
            /\ warnings' =
                 Append(warnings, InvalidIdWarning(event[1].variant))
            /\ json_obj' = None
            /\ out' = out
            /\ pc' = "emit"]_vars
    /\ [][(ListenerLeaves("emit") /\ event[1].track_id = "invalid") =>
            /\ warnings' = warnings
            /\ out' = out
            /\ pc' = "recv"]_vars

C3_Witness ==
    \E i, j \in 1..Len(handled) :
        /\ i < j
        /\ handled[i].event.track_id = "invalid"
        /\ handled[i].wrote = None
        /\ Len(warnings) = 1
        /\ handled[j].wrote # None

DocumentedSinkStatus(s) ==
    CASE s = "Running" -> "running"
      [] s = "TemporarilyClosed" -> "temporarily_closed"
      [] s = "Closed" -> "closed"

C8_PanickedListener ==
    /\ [][pc = "panicked" =>
            /\ pc' = "panicked"
            /\ handled' = handled
            /\ event' = event
            /\ Len(chan') >= Len(chan)
            /\ PlayerLines(out') = PlayerLines(out)]_vars
    /\ [](drop \in {"owned", "joining", "returned"})
    /\ []((drop = "returned" /\ pc = "panicked") =>
            drop_log = <<"debug", "error">>)
    /\ ((pc = "panicked" /\ drop = "joining") ~> (drop = "returned"))

C8_Witness ==
    /\ pc = "panicked"
    /\ drop = "returned"
    /\ chan # <<>>
    /\ drop_log = <<"debug", "error">>

\* C9: an iteration whose serialization fails logs exactly one warning,
\* writes nothing, and ends back at the receive with the channel untouched;
\* events are still handled in the order pushed, and the thread leaves the
\* loop only when the channel is closed and drained.
C9_SerializationFailure ==
    /\ [][(ListenerLeaves("emit") /\ Len(handled') = Len(handled) + 1
           /\ handled'[Len(handled')].ser = "Err") =>
            /\ warnings' =
                 Append(warnings, "Failed to serialize PlayerEvent")
            /\ out' = out
            /\ pc' = "recv"
            /\ chan' = chan
            /\ closed' = closed]_vars
    /\ [][(pc # "exited" /\ pc' = "exited") =>
            closed /\ chan = <<>> /\ Len(handled) = sent]_vars
    /\ [](\A i \in 1..Len(handled) :
            /\ handled[i].event = script[i]
            /\ handled[i].ser = "Err" => handled[i].wrote = None)

C9_Witness ==
    \E i, j \in 1..Len(handled) :
        /\ i < j
        /\ handled[i].ser = "Err"
        /\ handled[j].ser = "Ok"
        /\ PlayerLines(out) = handled[j].wrote
        /\ pc = "exited"

\* The line an iteration is expected to have contributed.
ExpectedLine(h) ==
    LET arm == MatchEvent(h.event) IN
    IF arm.json # None /\ h.ser = "Ok"
    THEN <<PlayerLine(arm.name, arm.json[1])>>
    ELSE <<>>

RECURSIVE ExpectedLines(_)
ExpectedLines(hs) ==
    IF hs = <<>> THEN <<>>
    ELSE ExpectedLines(SubSeq(hs, 1, Len(hs) - 1)) \o ExpectedLine(hs[Len(hs)])

\* C10: the player-event lines on stderr are, in order, one line per
\* handled event whose match produced a payload and whose serialization
\* succeeded, and none for any other event; the events handled are the
\* events pushed, in order; no line is named "unknown" or lacks a payload.
C10_PlayerLinesInOrder ==
    /\ PlayerLines(out) = ExpectedLines(handled)
    /\ \A i \in 1..Len(handled) : handled[i].event = script[i]
    /\ \A i \in 1..Len(out) :
        /\ out[i].tag = "raise_event"
        /\ out[i].name # "unknown"
        /\ DOMAIN out[i].json # {}

C10_Witness ==
    /\ Len(handled) = MaxEvents
    /\ Len(PlayerLines(out)) = MaxEvents
    /\ Len(out) > MaxEvents
    /\ out[1].name = "sink"

====
